---- MODULE Spec2Model ----
(***************************************************************************)
(* A model of the naive de Bruijn assembler of src/chenille-assembler.py   *)
(* (class ArachneAssembler): k-mer extraction, graph construction, the     *)
(* graph-ends query, sieving and the chain-collapsing loop of              *)
(* simplify_debruijn.                                                      *)
(*                                                                         *)
(* A Python string is a sequence of one-character strings.  A Python dict  *)
(* is a record [keys, ref]: its keys in insertion order and, for each key, *)
(* the identity of the set object it holds.  The set objects live in heap, *)
(* because sieve_graph and simplify_debruijn copy references to them and   *)
(* mutate them in place.                                                   *)
(***************************************************************************)
EXTENDS Integers, Sequences, FiniteSets, TLC

\* Bounds of the explored inputs.
MaxReads == 2
MaxReadLen == 4
MaxK == 3
\* simplify_debruijn is invoked at most this many times on one assembler.
MaxCalls == 2

\* The symbols reads are made of, and their code-point order.
Alphabet == {"A", "C"}
Rank(c) == CASE c = "A" -> 1 [] c = "C" -> 2 [] c = "G" -> 3 [] c = "T" -> 4

\* Python's None for the walk pointer; no string holds this symbol.
None == <<"None">>
\* A local of simplify_debruijn that is not bound yet.
Unbound == 0 - 1

--------------------------------------------------------------------------
\* Strings

RECURSIVE StrsOfLen(_)
StrsOfLen(n) ==
    IF n = 0 THEN {<<>>}
    ELSE {Append(s, c) : s \in StrsOfLen(n - 1), c \in Alphabet}

StrsUpTo(n) == UNION {StrsOfLen(m) : m \in 0..n}

\* s[lo:hi] of Python, for 0 <= lo and any hi.
Slice(s, lo, hi) ==
    LET h == IF hi > Len(s) THEN Len(s) ELSE hi
    IN  IF lo >= h THEN <<>> ELSE SubSeq(s, lo + 1, h)

\* a < b of Python strings: lexicographic by code point.
RECURSIVE StrLess(_, _)
StrLess(a, b) ==
    IF b = <<>> THEN FALSE
    ELSE IF a = <<>> THEN TRUE
    ELSE IF Head(a) # Head(b) THEN Rank(Head(a)) < Rank(Head(b))
    ELSE StrLess(Tail(a), Tail(b))

\* sorted(S) for a set of strings: the n-th is the one with n-1 smaller ones.
Sorted(S) ==
    [n \in 1..Cardinality(S) |->
        CHOOSE x \in S : Cardinality({y \in S : StrLess(y, x)}) = n - 1]

Range(s) == {s[n] : n \in DOMAIN s}

\* Every order in which the elements of a set may be listed: list(a_set)
\* of strings follows the hash order, which differs between runs.
RECURSIVE Orders(_)
Orders(S) ==
    IF S = {} THEN {<<>>}
    ELSE UNION {{<<x>> \o o : o \in Orders(S \ {x})} : x \in S}

--------------------------------------------------------------------------
\* Dicts

EmptyDict == [keys |-> <<>>, ref |-> <<>>]
DictKeys(d) == Range(d.keys)
DictLen(d) == Len(d.keys)
\* d[key] = r
DictSet(d, key, r) ==
    IF key \in DictKeys(d)
    THEN [d EXCEPT !.ref = [x \in DOMAIN d.ref |-> IF x = key THEN r ELSE d.ref[x]]]
    ELSE [keys |-> Append(d.keys, key),
          ref |-> [x \in DOMAIN d.ref \cup {key} |-> IF x = key THEN r ELSE d.ref[x]]]
\* d.pop(key, 0)
DictPop(d, key) ==
    IF key \notin DictKeys(d) THEN d
    ELSE [keys |-> SelectSeq(d.keys, LAMBDA x : x # key),
          ref |-> [x \in DOMAIN d.ref \ {key} |-> d.ref[x]]]
\* The dict by value: each key with the elements of its set.
Content(d, h) == [key \in DictKeys(d) |-> h[d.ref[key]]]

--------------------------------------------------------------------------
\* get_kmers

RECURSIVE GetKmersLoop(_, _, _, _, _)
GetKmersLoop(k, reads, read_len, n, kmer_set) ==
    IF n > Len(reads) THEN [aborted |-> FALSE, kmer_set |-> kmer_set]
    ELSE IF k > read_len THEN [aborted |-> TRUE, kmer_set |-> {}]
    ELSE IF k <= Len(reads[n])
         THEN GetKmersLoop(k, reads, read_len, n + 1,
                  kmer_set \cup {Slice(reads[n], j, j + k) : j \in 0..(Len(reads[n]) - k)})
         ELSE GetKmersLoop(k, reads, read_len, n + 1, kmer_set)

GetKmers(k, reads, read_len) == GetKmersLoop(k, reads, read_len, 1, {})

--------------------------------------------------------------------------
\* find_next_kmers, build_debruijn

\* find_next_kmers without the test kmer != other.
FindNextKmersWithSelf(kmers, kmer) ==
    SelectSeq(kmers, LAMBDA other :
        Slice(kmer, 1, Len(kmer)) = Slice(other, 0, Len(other) - 1))

FindNextKmers(kmers, kmer) ==
    SelectSeq(kmers, LAMBDA other :
        kmer # other /\ Slice(kmer, 1, Len(kmer)) = Slice(other, 0, Len(other) - 1))

\* The set object build_debruijn creates for graph[kmer] / reverse_graph[kmer].
FwdObj(kmer) == <<"fwd", kmer>>
RevObj(kmer) == <<"rev", kmer>>

BuildGraph(kmers) ==
    [keys |-> kmers, ref |-> [x \in Range(kmers) |-> FwdObj(x)]]

\* When kmers[n] becomes a key of reverse_graph.  The loop of lines 89-97
\* adds it with the first k-mer (in list order) that it follows, and the
\* followers of one k-mer come in list order; lines 99-101 add the k-mers
\* that follow none, in list order.
WhenKeyed(kmers, n) ==
    LET before == {p \in DOMAIN kmers : kmers[n] \in Range(FindNextKmers(kmers, kmers[p]))}
        first == IF before = {} THEN Len(kmers) + 1
                 ELSE CHOOSE p \in before : \A q \in before : p <= q
    IN  first * (Len(kmers) + 1) + n

BuildReverseGraph(kmers) ==
    [keys |-> [n \in DOMAIN kmers |->
                 kmers[CHOOSE i \in DOMAIN kmers :
                         Cardinality({j \in DOMAIN kmers :
                             WhenKeyed(kmers, j) < WhenKeyed(kmers, i)}) = n - 1]],
     ref |-> [x \in Range(kmers) |-> RevObj(x)]]

BuildHeap(kmers) ==
    [o \in {FwdObj(x) : x \in Range(kmers)} \cup {RevObj(x) : x \in Range(kmers)} |->
        IF o[1] = "fwd"
        THEN Range(FindNextKmers(kmers, o[2]))
        ELSE {x \in Range(kmers) : o[2] \in Range(FindNextKmers(kmers, x))}]

--------------------------------------------------------------------------
\* get_graph_ends: (heads, tails)

GetGraphEndsOf(g, r, h) ==
    <<SelectSeq(g.keys, LAMBDA key : Cardinality(h[r.ref[key]]) = 0),
      SelectSeq(r.keys, LAMBDA key : Cardinality(h[g.ref[key]]) = 0)>>

--------------------------------------------------------------------------
\* sieve_graph: (sieved_graph, graph).  The sieved dict is a new dict that
\* holds the same set objects as its argument.

SieveGraph(g, h) ==
    LET Keep(key) == key \in UNION {h[g.ref[x]] : x \in DictKeys(g)}
                     \/ Cardinality(h[g.ref[key]]) # 0
    IN  <<[keys |-> SelectSeq(g.keys, Keep),
           ref |-> [x \in {y \in DictKeys(g) : Keep(y)} |-> g.ref[x]]],
          g>>

--------------------------------------------------------------------------
\* simplify_debruijn

\* The blocks common to a and b, as (start in a, start in b, size).
MatchingBlocks(a, b) ==
    {m \in (0..Len(a)) \X (0..Len(b)) \X (0..Len(a)) :
        /\ m[1] + m[3] <= Len(a)
        /\ m[2] + m[3] <= Len(b)
        /\ Slice(a, m[1], m[1] + m[3]) = Slice(b, m[2], m[2] + m[3])}

\* Block m is found rather than block o: it is longer; or as long and starts
\* earlier in a; or starts there too and not later in b.
FoundBefore(m, o) ==
    \/ m[3] > o[3]
    \/ m[3] = o[3] /\ m[1] < o[1]
    \/ m[3] = o[3] /\ m[1] = o[1] /\ m[2] <= o[2]

\* SequenceMatcher(None, a, b).find_longest_match(0, len(a), 0, len(b)):
\* the longest common block; of those the one that starts earliest in a;
\* of those the one that starts earliest in b; (0, 0, 0) when there is none.
FindLongestMatch(a, b) ==
    CHOOSE m \in MatchingBlocks(a, b) : \A o \in MatchingBlocks(a, b) : FoundBefore(m, o)

NewWord(wrd, follower) ==
    LET s == FindLongestMatch(follower, wrd)
        alpha == s[1]
        beta == s[2]
        overlap_len == s[3]
    IN  Slice(wrd, 0, beta + overlap_len) \o Slice(follower, alpha + overlap_len, Len(follower))

\* for x in order: d[x].remove(old); d[x].add(new)   (KeyError: raised)
RECURSIVE Relink(_, _, _, _, _)
Relink(d, h, order, old, new) ==
    IF order = <<>> THEN [raised |-> FALSE, heap |-> h]
    ELSE LET x == Head(order)
         IN  IF x \notin DictKeys(d) \/ old \notin h[d.ref[x]]
             THEN [raised |-> TRUE, heap |-> h]
             ELSE Relink(d, [h EXCEPT ![d.ref[x]] = (@ \ {old}) \cup {new}],
                         Tail(order), old, new)

\* The follower the walk looks at: list(graph[word])[0].
Follower(g, h, wrd) == CHOOSE f \in h[g.ref[wrd]] : TRUE

\* The test of line 163; "raised" when reverse_graph[follower] is a KeyError.
MergeTest(g, r, h, wrd) ==
    IF Cardinality(h[g.ref[wrd]]) # 1 THEN "no"
    ELSE IF Follower(g, h, wrd) \notin DictKeys(r) THEN "raised"
    ELSE IF Cardinality(h[r.ref[Follower(g, h, wrd)]]) = 1 THEN "yes"
    ELSE "no"

\* The walk gives up after one merge instead of going on from new_word.
WalkOnFromNowhere(new_word) == None

\* The word the walk goes on from after a merge: word = new_word (line 198).
WalkOnFrom(new_word) == new_word

\* The body of the merge after new_word is made, lines 170-198, with the
\* orders in which the two lists were taken from their sets.
MergeStep(g, r, h, wrd, follower, new_word, porder, aorder) ==
    IF follower \notin DictKeys(g) \/ wrd \notin DictKeys(r)
    THEN [raised |-> TRUE, graph |-> g, reverse_graph |-> r, heap |-> h, word |-> None]
    ELSE
    LET g1 == DictSet(g, new_word, g.ref[follower])
        r1 == DictSet(r, new_word, r.ref[wrd])
        l1 == Relink(g1, h, porder, wrd, new_word)
        l2 == Relink(r1, l1.heap, aorder, follower, new_word)
    IN  IF l1.raised
        THEN [raised |-> TRUE, graph |-> g1, reverse_graph |-> r1,
              heap |-> l1.heap, word |-> None]
        ELSE IF l2.raised
        THEN [raised |-> TRUE, graph |-> g1, reverse_graph |-> r1,
              heap |-> l2.heap, word |-> None]
        ELSE [raised |-> FALSE,
              graph |-> DictPop(DictPop(g1, wrd), follower),
              reverse_graph |-> DictPop(DictPop(r1, wrd), follower),
              heap |-> l2.heap,
              word |-> WalkOnFrom(new_word)]

\* change = graph_size, the size after the pass not subtracted.
ChangeNotSubtracted(size, g) == size

\* change = graph_size - len(graph.keys())   (line 202)
Change(size, g) == size - DictLen(g)

--------------------------------------------------------------------------
VARIABLES
    pc,                 \* where the program is
    reads, read_len,    \* the arguments of __init__ (out of scope once it returns)
    self_k, self_kmers, \* self._k, self._kmers
    self_graph, self_graph_rev, self_graph_raw, self_graph_rev_raw,
    heap,               \* the set objects the dicts refer to
    ends,               \* what get_graph_ends returned last
    graph, reverse_graph, kmers, nxt, word, change, graph_size,
                        \* the locals of simplify_debruijn (nxt: position of the for loop)
    calls,              \* history: how many times simplify_debruijn was invoked
    zero_reads,         \* history: __init__ was given an empty list of reads
    first_result        \* history: the graphs by value when the first call returned

vars == <<pc, reads, read_len, self_k, self_kmers, self_graph, self_graph_rev,
          self_graph_raw, self_graph_rev_raw, heap, ends, graph, reverse_graph,
          kmers, nxt, word, change, graph_size, calls, zero_reads, first_result>>

fields == <<self_k, self_kmers, self_graph, self_graph_rev, self_graph_raw,
            self_graph_rev_raw>>
locals == <<graph, reverse_graph, kmers, nxt, word, change, graph_size>>

\* The sorted duplicate-free lists of at most n strings of S.
RECURSIVE ReadLists(_, _)
ReadLists(S, n) ==
    IF n = 0 THEN {<<>>}
    ELSE LET shorter == ReadLists(S, n - 1)
         IN  shorter \cup
             UNION {{Append(l, x) : x \in {y \in S : l = <<>> \/ StrLess(l[Len(l)], y)}} :
                    l \in {m \in shorter : Len(m) = n - 1}}

Init ==
    /\ pc = "start"
    /\ read_len \in 1..MaxReadLen
    /\ self_k \in 1..MaxK
    /\ reads \in ReadLists(StrsUpTo(read_len), MaxReads)
    /\ self_kmers = <<>>
    /\ self_graph = EmptyDict /\ self_graph_rev = EmptyDict
    /\ self_graph_raw = EmptyDict /\ self_graph_rev_raw = EmptyDict
    /\ heap = <<>>
    /\ ends = <<>>
    /\ graph = EmptyDict /\ reverse_graph = EmptyDict
    /\ kmers = <<>> /\ nxt = 0 /\ word = None /\ change = Unbound /\ graph_size = Unbound
    /\ calls = 0
    /\ zero_reads = FALSE
    /\ first_result = <<>>

\* ArachneAssembler.__init__
Construct ==
    /\ pc = "start"
    /\ LET r == GetKmers(self_k, reads, read_len)
       IN  IF r.aborted
           THEN /\ pc' = "aborted"
                /\ UNCHANGED <<reads, read_len, self_kmers>>
           ELSE /\ pc' = "constructed"
                /\ self_kmers' = Sorted(r.kmer_set)
                /\ reads' = <<>>
                /\ read_len' = 0
    /\ zero_reads' = (Len(reads) = 0)
    /\ UNCHANGED <<self_k, self_graph, self_graph_rev, self_graph_raw,
                   self_graph_rev_raw, heap, ends, locals, calls, first_result>>

\* build_debruijn
BuildDebruijn ==
    /\ pc = "constructed"
    /\ pc' = "built"
    /\ self_graph' = BuildGraph(self_kmers)
    /\ self_graph_rev' = BuildReverseGraph(self_kmers)
    /\ heap' = BuildHeap(self_kmers)
    /\ UNCHANGED <<reads, read_len, self_k, self_kmers, self_graph_raw,
                   self_graph_rev_raw, ends, locals, calls, zero_reads, first_result>>

\* get_graph_ends, called on the built graphs
GetGraphEnds ==
    /\ pc = "built"
    /\ ends' = GetGraphEndsOf(self_graph, self_graph_rev, heap)
    /\ UNCHANGED <<pc, reads, read_len, fields, heap, locals, calls, zero_reads, first_result>>

NoLocals ==
    /\ graph' = EmptyDict /\ reverse_graph' = EmptyDict
    /\ kmers' = <<>> /\ nxt' = 0 /\ word' = None
    /\ change' = Unbound /\ graph_size' = Unbound

\* An exception leaves simplify_debruijn: its locals are gone, the fields
\* of self are as they were, the set objects keep what was done to them.
Raise(h) ==
    /\ pc' = "raised"
    /\ heap' = h
    /\ NoLocals
    /\ UNCHANGED <<reads, read_len, fields, ends, calls, zero_reads, first_result>>

\* simplify_debruijn, lines 149-154
SimplifyEnter ==
    /\ pc \in {"built", "done"}
    /\ calls < MaxCalls
    /\ calls' = calls + 1
    /\ LET g == SieveGraph(self_graph, heap)[1]
           r == SieveGraph(self_graph_rev, heap)[1]
       IN  IF Len(g.keys) = 0
           THEN \* kmers[0]: IndexError
                /\ pc' = "raised"
                /\ NoLocals
           ELSE /\ pc' = "while"
                /\ graph' = g
                /\ reverse_graph' = r
                /\ kmers' = g.keys
                /\ change' = 1
                /\ UNCHANGED <<nxt, word, graph_size>>
    /\ UNCHANGED <<reads, read_len, fields, heap, ends, zero_reads, first_result>>

\* while change: ... (line 156), one more pass
WhilePass ==
    /\ pc = "while"
    /\ change # 0
    /\ graph_size' = DictLen(graph)
    /\ nxt' = 1
    /\ pc' = "for"
    /\ UNCHANGED <<reads, read_len, fields, heap, ends, graph, reverse_graph,
                   kmers, word, change, calls, zero_reads, first_result>>

\* while change: left; lines 204-208
WhileDone ==
    /\ pc = "while"
    /\ change = 0
    /\ self_graph_raw' = self_graph
    /\ self_graph_rev_raw' = self_graph_rev
    /\ self_graph' = graph
    /\ self_graph_rev' = reverse_graph
    /\ first_result' = IF calls = 1
                       THEN <<Content(graph, heap), Content(reverse_graph, heap)>>
                       ELSE first_result
    /\ pc' = "done"
    /\ NoLocals
    /\ UNCHANGED <<reads, read_len, self_k, self_kmers, heap, ends, calls, zero_reads>>

\* for kmer in kmers: word = kmer (lines 159-160)
ForKmer ==
    /\ pc = "for"
    /\ nxt <= Len(kmers)
    /\ word' = kmers[nxt]
    /\ nxt' = nxt + 1
    /\ pc' = "walk"
    /\ UNCHANGED <<reads, read_len, fields, heap, ends, graph, reverse_graph,
                   kmers, change, graph_size, calls, zero_reads, first_result>>

\* the for loop is exhausted: line 202
ForDone ==
    /\ pc = "for"
    /\ nxt > Len(kmers)
    /\ change' = Change(graph_size, graph)
    /\ pc' = "while"
    /\ UNCHANGED <<reads, read_len, fields, heap, ends, graph, reverse_graph,
                   kmers, nxt, word, graph_size, calls, zero_reads, first_result>>

Walking == pc = "walk" /\ word # None /\ word \in DictKeys(graph)

\* while word is not None and word in graph: left (line 162)
WalkDone ==
    /\ pc = "walk"
    /\ ~Walking
    /\ pc' = "for"
    /\ UNCHANGED <<reads, read_len, fields, heap, ends, graph, reverse_graph,
                   kmers, nxt, word, change, graph_size, calls, zero_reads, first_result>>

\* the test of line 163 fails: word = None (line 200); or the test itself
\* raises KeyError, reverse_graph having no entry for the follower
WalkStop ==
    /\ Walking
    /\ MergeTest(graph, reverse_graph, heap, word) # "yes"
    /\ IF MergeTest(graph, reverse_graph, heap, word) = "raised"
       THEN Raise(heap)
       ELSE /\ word' = None
            /\ UNCHANGED <<pc, reads, read_len, fields, heap, ends, graph,
                           reverse_graph, kmers, nxt, change, graph_size, calls,
                           zero_reads, first_result>>

\* the merge of word with its follower (lines 164-198)
WalkMerge ==
    /\ Walking
    /\ MergeTest(graph, reverse_graph, heap, word) = "yes"
    /\ \E follower \in heap[graph.ref[word]] :
       \E new_word \in {NewWord(word, follower)} :
       \E porder \in Orders(heap[reverse_graph.ref[word]]),
          aorder \in Orders(heap[graph.ref[follower]]) :
       \E m \in {MergeStep(graph, reverse_graph, heap, word, follower, new_word,
                           porder, aorder)} :
          IF m.raised
          THEN Raise(m.heap)
          ELSE /\ graph' = m.graph
               /\ reverse_graph' = m.reverse_graph
               /\ heap' = m.heap
               /\ word' = m.word
               /\ UNCHANGED <<pc, reads, read_len, fields, ends, kmers, nxt,
                              change, graph_size, calls, zero_reads, first_result>>

Next ==
    \/ Construct
    \/ BuildDebruijn
    \/ GetGraphEnds
    \/ SimplifyEnter
    \/ WhilePass
    \/ WhileDone
    \/ ForKmer
    \/ ForDone
    \/ WalkDone
    \/ WalkStop
    \/ WalkMerge

Spec == Init /\ [][Next]_vars

\* The interpreter runs the program on: no step that can be taken is put
\* off forever.
FairSpec == Spec /\ WF_vars(Next)

--------------------------------------------------------------------------
\* Properties

Succ(g, h, a) == h[g.ref[a]]

\* B is a successor of A in g exactly when A is a predecessor of B in r.
Symmetric(g, r, h) ==
    /\ \A a \in DictKeys(g) : \A b \in Succ(g, h, a) :
          b \in DictKeys(r) /\ a \in Succ(r, h, b)
    /\ \A b \in DictKeys(r) : \A a \in Succ(r, h, b) :
          a \in DictKeys(g) /\ b \in Succ(g, h, a)

\* A pass of the outer loop has just ended (line 202 has run).
PassEnded == pc = "while" /\ graph_size # Unbound

\* C1: the forward and the reverse graph hold the same edges, B a successor
\* of A exactly when A is a predecessor of B: after build_debruijn, at the
\* end of every pass of simplify_debruijn, and in the graphs it stores.
EdgeSymmetry ==
    /\ pc = "built" => Symmetric(self_graph, self_graph_rev, heap)
    /\ PassEnded => Symmetric(graph, reverse_graph, heap)
    /\ pc = "done" => Symmetric(self_graph, self_graph_rev, heap)

\* C2: when the first simplify_debruijn has returned, the raw graphs have
\* the keys and the successor and predecessor sets that build_debruijn made.
RawSnapshotKept ==
    (pc = "done" /\ calls = 1) =>
        /\ Content(self_graph_raw, heap)
             = Content(BuildGraph(self_kmers), BuildHeap(self_kmers))
        /\ Content(self_graph_rev_raw, heap)
             = Content(BuildReverseGraph(self_kmers), BuildHeap(self_kmers))

\* C3: a second simplify_debruijn on the simplified graphs completes and
\* leaves the forward and the reverse graph as the first call left them.
SimplifyIdempotent ==
    calls = 2 =>
        /\ pc # "raised"
        /\ pc = "done" =>
              <<Content(self_graph, heap), Content(self_graph_rev, heap)>> = first_result

InSimplify == pc \in {"while", "for", "walk"}

\* C4: simplify_debruijn always leaves its inner walk loop and its outer
\* fixed-point loop, also on graphs whose chains close into a cycle.
SimplifyTerminates ==
    /\ (pc = "walk") ~> (pc # "walk")
    /\ InSimplify ~> ~InSimplify

\* The walk is merging a node that is its own follower: a chain that closed
\* into a cycle.
WalkOnCycle ==
    /\ Walking
    /\ MergeTest(graph, reverse_graph, heap, word) = "yes"
    /\ Follower(graph, heap, word) = word

\* A contraction applies to node a of the graphs.
Contractible(g, r, h, a) ==
    /\ Cardinality(Succ(g, h, a)) = 1
    /\ \E f \in Succ(g, h, a) : f \in DictKeys(r) /\ Cardinality(Succ(r, h, f)) = 1

\* C5: when simplify_debruijn has returned, no node of the simplified graph,
\* k-mer or merged contig, has exactly one successor whose predecessor set
\* has exactly one element.
FixedPointReached ==
    pc = "done" =>
        \A a \in DictKeys(self_graph) : ~Contractible(self_graph, self_graph_rev, heap, a)

\* simplify_debruijn has returned a graph in which a merged contig has exactly
\* one successor, and that successor has another predecessor as well.
ContigBeforeBranch ==
    /\ pc = "done"
    /\ \E a \in DictKeys(self_graph) :
          /\ Len(a) > self_k
          /\ Cardinality(Succ(self_graph, heap, a)) = 1
          /\ \E f \in Succ(self_graph, heap, a) :
                f \in DictKeys(self_graph_rev) /\ Cardinality(Succ(self_graph_rev, heap, f)) > 1

\* The last k-1 characters of a are the first k-1 characters of b.
Overlaps(a, b) == SubSeq(a, 2, Len(a)) = SubSeq(b, 1, Len(b) - 1)

\* C6: after build_debruijn, b is a successor of a exactly when b differs
\* from a and the last k-1 characters of a are the first k-1 of b; no k-mer
\* is its own successor; every k-mer is a key of both graphs; and a is a
\* predecessor of b exactly when b is a successor of a.
ConstructionRule ==
    pc = "built" =>
        /\ DictKeys(self_graph) = Range(self_kmers)
        /\ DictKeys(self_graph_rev) = Range(self_kmers)
        /\ \A a \in Range(self_kmers) :
              /\ Succ(self_graph, heap, a) \subseteq Range(self_kmers)
              /\ Succ(self_graph_rev, heap, a) \subseteq Range(self_kmers)
              /\ a \notin Succ(self_graph, heap, a)
              /\ \A b \in Range(self_kmers) :
                    /\ b \in Succ(self_graph, heap, a) <=> (b # a /\ Overlaps(a, b))
                    /\ a \in Succ(self_graph_rev, heap, b) <=> b \in Succ(self_graph, heap, a)

\* A built graph with a k-mer whose own suffix is its own prefix and that
\* has a successor, and with a k-mer that has no successor.
BuiltWithHomopolymer ==
    /\ pc = "built"
    /\ \E a \in Range(self_kmers) :
          Len(a) > 1 /\ Overlaps(a, a) /\ Cardinality(Succ(self_graph, heap, a)) > 0
    /\ \E b \in Range(self_kmers) : Cardinality(Succ(self_graph, heap, b)) = 0

\* s occurs in t as a run of consecutive characters.
Occurs(s, t) == \E j \in 0..(Len(t) - Len(s)) : Slice(t, j, j + Len(s)) = s

\* C7: get_kmers aborts whenever k exceeds read_len, whatever the reads;
\* otherwise it does not abort and every k-mer it returns has length k and
\* comes from a read that is at least k long.
ConfigurationError ==
    [][pc = "start" =>
          IF self_k > read_len
          THEN pc' = "aborted"
          ELSE /\ pc' = "constructed"
               /\ \A kmer \in Range(self_kmers') :
                     /\ Len(kmer) = self_k
                     /\ \E n \in DOMAIN reads :
                           Len(reads[n]) >= self_k /\ Occurs(kmer, reads[n])]_vars

\* C8: a run on zero reads reaches no error: the k-mer list and the built
\* graphs are empty, get_graph_ends returns two empty lists, and
\* simplify_debruijn completes and leaves empty graphs.
AllEmptyRun ==
    zero_reads =>
        /\ pc \notin {"raised", "aborted"}
        /\ self_kmers = <<>>
        /\ self_graph = EmptyDict /\ self_graph_rev = EmptyDict
        /\ SieveGraph(self_graph, heap)[1] = EmptyDict
        /\ ends \in {<<>>, <<<<>>, <<>>>>}

\* The step is a merge of word with its follower that did not raise.
Merged == Walking /\ MergeTest(graph, reverse_graph, heap, word) = "yes" /\ pc' = "walk"

\* n is w followed by what of f lies beyond a boundary of at least k-1
\* characters that ends w and starts f.
Spliced(w, f, n, k) ==
    \E b \in (k - 1)..Len(f) :
        /\ b <= Len(w)
        /\ Slice(w, Len(w) - b, Len(w)) = Slice(f, 0, b)
        /\ n = w \o Slice(f, b, Len(f))

\* C9: every merge makes new_word from word followed by the part of follower
\* beyond their shared boundary of at least k-1 characters, so that word is
\* a prefix and follower a suffix of new_word and nothing is duplicated or
\* lost; ATGG and TGGA merge into ATGGA.
MergeStringCorrect ==
    [][Merged =>
          /\ Spliced(word, Follower(graph, heap, word), word', self_k)
          /\ NewWord(<<"A", "T", "G", "G">>, <<"T", "G", "G", "A">>)
               = <<"A", "T", "G", "G", "A">>]_vars

\* The set S with word and follower re-pointed to new_word.
Repointed(S, w, f, n) == {IF x \in {w, f} THEN n ELSE x : x \in S}

\* C10: right after every merge, word and follower are keys of neither
\* working graph, new_word is a key of both with follower's former
\* successors and word's former predecessors, every node named in a set is
\* a key, and the graph has one node less.
MergeStepEffect ==
    [][Merged =>
          LET w == word
              f == Follower(graph, heap, word)
              n == word'
          IN  /\ {w, f} \cap DictKeys(graph') = {}
              /\ {w, f} \cap DictKeys(reverse_graph') = {}
              /\ n \in DictKeys(graph') /\ n \in DictKeys(reverse_graph')
              /\ Succ(graph', heap', n) = Repointed(Succ(graph, heap, f), w, f, n)
              /\ Succ(reverse_graph', heap', n) = Repointed(Succ(reverse_graph, heap, w), w, f, n)
              /\ \A a \in DictKeys(graph') : Succ(graph', heap', a) \subseteq DictKeys(graph')
              /\ \A a \in DictKeys(reverse_graph') :
                    Succ(reverse_graph', heap', a) \subseteq DictKeys(reverse_graph')
              /\ DictLen(graph') = DictLen(graph) - 1]_vars
====
